---- MODULE Spec2Model ----
(***************************************************************************)
(* Model of psk1rm.py: the four 1RM formulas, the get_1rm dispatch and the *)
(* weekly growth projection loop of the script.                            *)
(*                                                                         *)
(* Numbers.  A Python float is an IEEE-754 double: sign s, mantissa m and  *)
(* exponent e, standing for s * m * 2^e, with 2^52 <= m < 2^53 unless the  *)
(* value is subnormal (e = -1074) or zero.  Every operation computes the   *)
(* exact result and rounds it once to nearest, ties to even; results       *)
(* beyond the largest double are inf.  Mantissas exceed TLC's 32-bit       *)
(* integers and are kept as sequences of limbs.  The sign of a zero is not *)
(* kept.  reps ** 0.10 is read from a table of the doubles pow returns.    *)
(*                                                                         *)
(* Specifications.  Spec is the script on what its widgets can return      *)
(* (weight >= 1.0, reps in 1..30, one of the five formulas, weeks >= 1).   *)
(* CoreSpec is the calculation part of the script, lines 73-119, on values *)
(* handed to it directly, among them values the widgets refuse (a negative *)
(* weight, an unknown formula, weeks <= 0): it shows what the estimator    *)
(* and the projection loop do as functions of their arguments.  EstSpec is *)
(* get_1rm alone over a wide range of arguments.                           *)
(***************************************************************************)
EXTENDS Integers, Sequences, FiniteSets, TLC

(* ------------------------------------------------------------------ *)
(* Bounds of the model                                                  *)
(* ------------------------------------------------------------------ *)
\* largest rep count the estimator is applied to (the Brzycki edge is at 37)
MaxReps == 40
\* longest projection horizon
MaxWeeks == 3
\* how far below zero the week count is drawn
MaxNegWeeks == 2
\* how far below zero the rep count is drawn
MaxNegReps == 1

Abs(k) == IF k < 0 THEN 0 - k ELSE k
Sgn(k) == IF k < 0 THEN -1 ELSE IF k > 0 THEN 1 ELSE 0
Max(i, j) == IF i >= j THEN i ELSE j
Min(i, j) == IF i <= j THEN i ELSE j

(* ------------------------------------------------------------------ *)
(* Unbounded naturals: little-endian limbs, no leading zero limb        *)
(* ------------------------------------------------------------------ *)
Radix == 10^4
\* bits moved by one limb-wise shift
Chunk == 2^13

RECURSIVE NatOf(_)
NatOf(n) == IF n = 0 THEN <<>> ELSE <<n % Radix>> \o NatOf(n \div Radix)

RECURSIVE AddC(_, _, _)
AddC(a, b, c) ==
    IF a = <<>> /\ b = <<>>
    THEN (IF c = 0 THEN <<>> ELSE <<c>>)
    ELSE LET x == IF a = <<>> THEN 0 ELSE Head(a)
             y == IF b = <<>> THEN 0 ELSE Head(b)
             s == x + y + c
         IN <<s % Radix>> \o AddC(IF a = <<>> THEN a ELSE Tail(a),
                                  IF b = <<>> THEN b ELSE Tail(b),
                                  s \div Radix)

NatAdd(a, b) == AddC(a, b, 0)

RECURSIVE MulLimb(_, _, _)
MulLimb(a, m, c) ==
    IF a = <<>>
    THEN (IF c = 0 THEN <<>> ELSE <<c>>)
    ELSE LET p == Head(a) * m + c
         IN <<p % Radix>> \o MulLimb(Tail(a), m, p \div Radix)

RECURSIVE NatMul(_, _)
NatMul(a, b) ==
    IF a = <<>> \/ b = <<>> THEN <<>>
    ELSE LET rest == NatMul(a, Tail(b))
             shifted == IF rest = <<>> THEN <<>> ELSE <<0>> \o rest
         IN IF Head(b) = 0 THEN shifted
            ELSE NatAdd(MulLimb(a, Head(b), 0), shifted)

RECURSIVE CmpFrom(_, _, _)
CmpFrom(a, b, i) ==
    IF i = 0 THEN 0
    ELSE IF a[i] < b[i] THEN -1
    ELSE IF a[i] > b[i] THEN 1
    ELSE CmpFrom(a, b, i - 1)

\* -1, 0 or 1 as a < b, a = b, a > b
NatCmp(a, b) ==
    IF Len(a) < Len(b) THEN -1
    ELSE IF Len(a) > Len(b) THEN 1
    ELSE CmpFrom(a, b, Len(a))

RECURSIVE Strip(_)
Strip(a) ==
    IF a = <<>> THEN a
    ELSE IF a[Len(a)] = 0 THEN Strip(SubSeq(a, 1, Len(a) - 1))
    ELSE a

RECURSIVE SubB(_, _, _)
SubB(a, b, br) ==
    IF a = <<>> THEN <<>>
    ELSE LET y == IF b = <<>> THEN 0 ELSE Head(b)
             t == Head(a) - y - br
         IN <<IF t < 0 THEN t + Radix ELSE t>>
            \o SubB(Tail(a), IF b = <<>> THEN b ELSE Tail(b), IF t < 0 THEN 1 ELSE 0)

\* a - b for a >= b
NatSub(a, b) == Strip(SubB(a, b, 0))

\* quotient limbs of a[1..i] with the remainder rem carried in from above
RECURSIVE DivFrom(_, _, _, _)
DivFrom(a, d, i, rem) ==
    IF i = 0 THEN <<>>
    ELSE LET t == rem * Radix + a[i]
         IN DivFrom(a, d, i - 1, t % d) \o <<t \div d>>

\* floor(a / d) for 0 < d <= Chunk
DivSmall(a, d) == Strip(DivFrom(a, d, Len(a), 0))

\* a mod d for 0 < d <= Chunk, over a[1..i] with rem carried in from above
RECURSIVE ModFrom(_, _, _, _)
ModFrom(a, d, i, rem) ==
    IF i = 0 THEN rem ELSE ModFrom(a, d, i - 1, (rem * Radix + a[i]) % d)

ModSmall(a, d) == ModFrom(a, d, Len(a), 0)

\* the number of trailing zero bits of a > 0
RECURSIVE Twos(_)
Twos(a) ==
    IF ModSmall(a, Chunk) = 0 THEN 13 + Twos(DivSmall(a, Chunk))
    ELSE IF a[1] % 2 = 0 THEN 1 + Twos(DivSmall(a, 2))
    ELSE 0

\* a * 2^k
RECURSIVE MulPow2(_, _)
MulPow2(a, k) ==
    IF k >= 13 THEN MulPow2(MulLimb(a, Chunk, 0), k - 13)
    ELSE MulLimb(a, 2^k, 0)

\* floor(a / 2^k)
RECURSIVE DivPow2(_, _)
DivPow2(a, k) ==
    IF k = 0 \/ a = <<>> THEN a
    ELSE IF k >= 13 THEN DivPow2(DivSmall(a, Chunk), k - 13)
    ELSE DivSmall(a, 2^k)

RECURSIVE IntBits(_)
IntBits(n) == IF n = 0 THEN 0 ELSE 1 + IntBits(n \div 2)

\* the number of bits of a
RECURSIVE BitLen(_)
BitLen(a) ==
    IF Len(a) <= 1 THEN (IF a = <<>> THEN 0 ELSE IntBits(a[1]))
    ELSE 13 + BitLen(DivSmall(a, Chunk))

\* floor(a / b) for b > 0, found bit by bit from bit i down
RECURSIVE DivBits(_, _, _, _)
DivBits(a, b, q, i) ==
    IF i < 0 THEN q
    ELSE LET c == NatAdd(q, MulPow2(<<1>>, i))
         IN IF NatCmp(NatMul(c, b), a) <= 0
            THEN DivBits(a, b, c, i - 1)
            ELSE DivBits(a, b, q, i - 1)

NatDiv(a, b) == DivBits(a, b, <<>>, BitLen(a) - BitLen(b))

IsOdd(a) == a # <<>> /\ a[1] % 2 = 1

(* ------------------------------------------------------------------ *)
(* IEEE-754 doubles                                                     *)
(* ------------------------------------------------------------------ *)
\* bits of a mantissa, exponent of the smallest subnormal, largest exponent
\* of a 53-bit mantissa
MantBits == 52 + 1
MinExp == 0 - 1074
MaxExp == 1023 - 52

Fin(s, m, e) == [k |-> "fin", s |-> s, m |-> m, e |-> e]
Zero == Fin(0, <<>>, 0)
Inf(s) == [k |-> "inf", s |-> s, m |-> <<>>, e |-> 0]
NaN == [k |-> "nan", s |-> 0, m |-> <<>>, e |-> 0]
\* a complex result: only its being complex is kept
Cx == [k |-> "cx", s |-> 0, m |-> <<>>, e |-> 0]
\* ZeroDivisionError was raised in place of a value
ZeroDiv == [k |-> "ZeroDivisionError", s |-> 0, m |-> <<>>, e |-> 0]

\* q, or q + 1 when the half bit is set and either a lower bit is set
\* (sticky) or q is odd: round to nearest, ties to even
RoundUp(q, half, sticky) ==
    IF half /\ (sticky \/ IsOdd(q)) THEN NatAdd(q, <<1>>) ELSE q

\* t = floor(n / 2^(sh - 1)) carries the half bit as its lowest bit
RoundHalf(t, sticky) == RoundUp(DivSmall(t, 2), IsOdd(t), sticky)

\* n / 2^sh rounded to the nearest integer, ties to even (n > 0, sh >= 1)
RoundShift(n, sh) == RoundHalf(DivPow2(n, sh - 1), Twos(n) < sh - 1)

\* s * q * 2^e for a rounded mantissa q: halved when the rounding carried
\* into a 54th bit, inf beyond the largest exponent
Pack(s, q, e) ==
    IF q = <<>> THEN Zero
    ELSE IF BitLen(q) > MantBits
         THEN (IF e + 1 > MaxExp THEN Inf(s) ELSE Fin(s, DivSmall(q, 2), e + 1))
    ELSE IF e > MaxExp THEN Inf(s)
    ELSE Fin(s, q, e)

\* s * n * 2^e with n brought to 53 bits (fewer for a subnormal) by the shift sh
Scale(s, n, e, sh) ==
    Pack(s, IF sh <= 0 THEN MulPow2(n, 0 - sh) ELSE RoundShift(n, sh), e + sh)

\* the double nearest to s * n * 2^e
RoundFloat(s, n, e) ==
    IF n = <<>> THEN Zero
    ELSE Scale(s, n, e, Max(BitLen(n) - MantBits, MinExp - e))

\* float(i) for an int i: exact, an int of the model has at most 31 bits
FromInt(i) ==
    IF i = 0 THEN Zero
    ELSE Fin(Sgn(i), MulPow2(NatOf(Abs(i)), MantBits - IntBits(Abs(i))),
             IntBits(Abs(i)) - MantBits)

IsNum(x) == x.k \in {"fin", "inf"}

\* float * float
FMul(x, y) ==
    IF x.k = "ZeroDivisionError" \/ y.k = "ZeroDivisionError" THEN ZeroDiv
    ELSE IF x.k = "cx" \/ y.k = "cx" THEN Cx
    ELSE IF x.k = "nan" \/ y.k = "nan" THEN NaN
    ELSE IF x.k = "inf" \/ y.k = "inf"
         THEN (IF x.s * y.s = 0 THEN NaN ELSE Inf(x.s * y.s))
    ELSE IF x.s * y.s = 0 THEN Zero
    ELSE RoundFloat(x.s * y.s, NatMul(x.m, y.m), x.e + y.e)

\* xs * a + ys * b for magnitudes a, b of a common exponent lo, c = NatCmp(a, b)
AddSigned(xs, a, ys, b, lo, c) ==
    RoundFloat(IF xs = ys \/ c >= 0 THEN xs ELSE ys,
               IF xs = ys THEN NatAdd(a, b)
               ELSE IF c >= 0 THEN NatSub(a, b) ELSE NatSub(b, a),
               lo)

AddAligned(xs, a, ys, b, lo) == AddSigned(xs, a, ys, b, lo, NatCmp(a, b))

\* the sum of two finite nonzero doubles
AddFin(x, y) ==
    AddAligned(x.s, MulPow2(x.m, x.e - Min(x.e, y.e)),
               y.s, MulPow2(y.m, y.e - Min(x.e, y.e)), Min(x.e, y.e))

\* float + float
FAdd(x, y) ==
    IF x.k = "ZeroDivisionError" \/ y.k = "ZeroDivisionError" THEN ZeroDiv
    ELSE IF x.k = "cx" \/ y.k = "cx" THEN Cx
    ELSE IF x.k = "nan" \/ y.k = "nan" THEN NaN
    ELSE IF x.k = "inf" /\ y.k = "inf" THEN (IF x.s = y.s THEN x ELSE NaN)
    ELSE IF x.k = "inf" THEN x
    ELSE IF y.k = "inf" THEN y
    ELSE IF x.s = 0 THEN y
    ELSE IF y.s = 0 THEN x
    \* an operand below a 2^-10 ulp of the other cannot move the rounding
    ELSE IF x.e - y.e > 64 THEN x
    ELSE IF y.e - x.e > 64 THEN y
    ELSE AddFin(x, y)

\* 2 * q, plus 1 (a sticky bit) when the division left a remainder
Sticky(q, exact) == AddC(q, q, IF exact THEN 0 ELSE 1)

StickyQuot(q, a, d) == Sticky(q, NatMul(q, d) = a)

\* floor(a / d) with a sticky bit, limb-wise when d fits a limb
QuotSticky(a, d) ==
    IF Len(d) = 1 /\ d[1] <= Chunk
    THEN Sticky(DivSmall(a, d[1]), ModSmall(a, d[1]) = 0)
    ELSE StickyQuot(NatDiv(a, d), a, d)

\* s * (a / d) * 2^e: a is scaled by 2^k so that the quotient has 58 or
\* more bits, and the result is rounded once
DivBy(s, a, e, d, k) == RoundFloat(s, QuotSticky(MulPow2(a, k), d), e - k - 1)

DivOdd(s, a, e, d) == DivBy(s, a, e, d, Max(0, 58 + BitLen(d) - BitLen(a)))

\* the quotient of two finite nonzero doubles; the divisor is reduced to
\* its odd part
DivFin(x, y) ==
    DivOdd(x.s * y.s, x.m, x.e - y.e - Twos(y.m), DivPow2(y.m, Twos(y.m)))

\* float / float; a zero divisor raises ZeroDivisionError whatever the
\* dividend is (a complex one included)
FDiv(x, y) ==
    IF x.k = "ZeroDivisionError" \/ y.k = "ZeroDivisionError" THEN ZeroDiv
    ELSE IF y.k = "fin" /\ y.s = 0 THEN ZeroDiv
    ELSE IF x.k = "cx" \/ y.k = "cx" THEN Cx
    ELSE IF x.k = "nan" \/ y.k = "nan" THEN NaN
    ELSE IF x.k = "inf" THEN (IF y.k = "inf" THEN NaN ELSE Inf(x.s * y.s))
    ELSE IF y.k = "inf" THEN Zero
    ELSE IF x.s = 0 THEN Zero
    ELSE DivFin(x, y)

\* a float literal p/q written in decimal (p, q ints): the nearest double
Lit(p, q) == FDiv(FromInt(p), FromInt(q))

\* -1, 0 or 1 as x < y, x = y, x > y, for x and y finite or infinite
FCmpMag(x, y) ==
    IF x.k = "inf" /\ y.k = "inf" THEN 0
    ELSE IF x.k = "inf" THEN 1
    ELSE IF y.k = "inf" THEN -1
    ELSE IF x.e # y.e THEN (IF x.e < y.e THEN -1 ELSE 1)
    ELSE NatCmp(x.m, y.m)

FCmp(x, y) ==
    IF x.s # y.s THEN (IF x.s < y.s THEN -1 ELSE 1)
    ELSE IF x.s = 0 THEN 0
    ELSE x.s * FCmpMag(x, y)

\* x == y, x < y, x <= y (False when either is nan)
FEq(x, y) == IsNum(x) /\ IsNum(y) /\ FCmp(x, y) = 0
FLt(x, y) == IsNum(x) /\ IsNum(y) /\ FCmp(x, y) < 0
FLe(x, y) == IsNum(x) /\ IsNum(y) /\ FCmp(x, y) <= 0

IsPos(x) == IsNum(x) /\ x.s = 1
IsFinite(x) == x.k = "fin"

\* the value of a name the script has not assigned yet
None == [k |-> "None", s |-> 0, m |-> <<>>, e |-> 0]

\* the weights used as inputs: -5.0, 0.0, 5e-324 (the smallest subnormal),
\* 2.2250738585072014e-308 (the smallest normal), 2.5, 100.0, 1e308
W_neg5 == FromInt(0 - 5)
W_tiny == Fin(1, <<1>>, MinExp)
W_min_normal == Fin(1, <<496, 2737, 5996, 4503>>, MinExp)
W_2_5 == Lit(5, 2)
W_100 == FromInt(100)
W_1e308 == Fin(1, <<2432, 2, 4209, 5010>>, 971)

(* ------------------------------------------------------------------ *)
(* reps ** 0.10                                                         *)
(* ------------------------------------------------------------------ *)
\* pow(float(r), 0.1) for r = 1, 2, 3, ...: the doubles the C library returns
PowTable ==
    << 
       Fin(1, <<496, 2737, 5996, 4503>>, -52),
       Fin(1, <<4036, 6650, 8385, 4826>>, -52),
       Fin(1, <<8667, 1067, 5719, 5026>>, -52),
       Fin(1, <<5749, 8352, 2774, 5173>>, -52),
       Fin(1, <<3528, 3439, 134, 5290>>, -52),
       Fin(1, <<5746, 8139, 3463, 5387>>, -52),
       Fin(1, <<8787, 7605, 360, 5471>>, -52),
       Fin(1, <<9433, 2117, 5815, 5544>>, -52),
       Fin(1, <<6342, 9545, 2733, 5610>>, -52),
       Fin(1, <<3460, 1544, 6960, 5669>>, -52),
       Fin(1, <<5141, 2865, 9923, 5723>>, -52),
       Fin(1, <<888, 8507, 148, 5774>>, -52),
       Fin(1, <<5082, 2392, 4171, 5820>>, -52),
       Fin(1, <<8501, 7889, 7112, 5863>>, -52),
       Fin(1, <<7301, 8507, 3065, 5904>>, -52),
       Fin(1, <<9228, 3526, 5353, 5942>>, -52),
       Fin(1, <<466, 5635, 6711, 5978>>, -52),
       Fin(1, <<3490, 4282, 9421, 6012>>, -52),
       Fin(1, <<2672, 9586, 5404, 6045>>, -52),
       Fin(1, <<62, 3000, 6297, 6076>>, -52),
       Fin(1, <<4731, 5046, 3501, 6106>>, -52),
       Fin(1, <<3900, 7761, 8230, 6134>>, -52),
       Fin(1, <<8742, 4820, 1541, 6162>>, -52),
       Fin(1, <<8523, 2610, 4359, 6188>>, -52),
       Fin(1, <<8748, 8922, 7499, 6213>>, -52),
       Fin(1, <<4718, 1431, 1686, 6238>>, -52),
       Fin(1, <<4703, 4933, 7561, 6261>>, -52),
       Fin(1, <<8162, 4069, 5701, 6284>>, -52),
       Fin(1, <<8355, 6618, 6622, 6306>>, -52),
       Fin(1, <<4135, 1256, 791, 6328>>, -52),
       Fin(1, <<747, 2795, 8628, 6348>>, -52),
       Fin(1, <<5773, 7252, 516, 6369>>, -52),
       Fin(1, <<4295, 8600, 6804, 6388>>, -52),
       Fin(1, <<7602, 8660, 7810, 6407>>, -52),
       Fin(1, <<6595, 1325, 3826, 6426>>, -52),
       Fin(1, <<4330, 2044, 5118, 6444>>, -52),
       Fin(1, <<1275, 3345, 1933, 6462>>, -52),
       Fin(1, <<4114, 7015, 4498, 6479>>, -52),
       Fin(1, <<6552, 3455, 3024, 6496>>, -52),
       Fin(1, <<3146, 8627, 7704, 6512>>, -52),
       Fin(1, <<5106, 8947, 8720, 6528>>, -52),
       Fin(1, <<2600, 4422, 6240, 6544>>, -52),
       Fin(1, <<2548, 263, 420, 6560>>, -52),
       Fin(1, <<1808, 7194, 1405, 6575>>, -52),
       Fin(1, <<5760, 620, 9334, 6589>>, -52),
       Fin(1, <<8066, 8810, 4332, 6604>>, -52),
       Fin(1, <<8039, 213, 6522, 6618>>, -52),
       Fin(1, <<9324, 20, 6014, 6632>>, -52) >>

\* reps ** 0.10: 0.0 for 0, a complex number for a negative base
Pow010(r) ==
    IF r < 0 THEN Cx
    ELSE IF r = 0 THEN Zero
    ELSE PowTable[r]

(* ------------------------------------------------------------------ *)
(* The 1RM formulas                                                     *)
(* ------------------------------------------------------------------ *)
\* faulty variant: a negative weight is clamped to 0
calculate_epley_clamped(weight, reps) ==
    LET wt == IF weight.s < 0 THEN Zero ELSE weight
    IN IF reps = 1 THEN wt
       ELSE FMul(wt, FAdd(FromInt(1), FDiv(FromInt(reps), FromInt(30))))

calculate_epley(weight, reps) ==
    IF reps = 1 THEN weight
    ELSE FMul(weight, FAdd(FromInt(1), FDiv(FromInt(reps), FromInt(30))))

\* faulty variant: no reps >= 37 guard
calculate_brzycki_noguard(weight, reps) ==
    IF reps = 1 THEN weight
    ELSE FMul(weight, FDiv(FromInt(36), FromInt(37 - reps)))

calculate_brzycki(weight, reps) ==
    IF reps = 1 THEN weight
    ELSE IF reps >= 37 THEN weight
    ELSE FMul(weight, FDiv(FromInt(36), FromInt(37 - reps)))

calculate_lombardi(weight, reps) ==
    IF reps = 1 THEN weight
    ELSE FMul(weight, Pow010(reps))

\* faulty variant: 0.025 / reps for 0.025 * reps
calculate_oconner_inverted(weight, reps) ==
    IF reps = 1 THEN weight
    ELSE FMul(weight, FAdd(FromInt(1), FDiv(Lit(25, 1000), FromInt(reps))))

calculate_oconner(weight, reps) ==
    IF reps = 1 THEN weight
    ELSE FMul(weight, FAdd(FromInt(1), FMul(Lit(25, 1000), FromInt(reps))))

\* the selectbox options of formula_choice
Formulas == {"Gennemsnit", "Epley", "Brzycki", "Lombardi", "O'Conner"}

\* faulty variant: an unmatched method falls into the average branch
get_1rm_default_average(weight, reps, method) ==
    IF method = "Epley" THEN calculate_epley(weight, reps)
    ELSE IF method = "Brzycki" THEN calculate_brzycki(weight, reps)
    ELSE IF method = "Lombardi" THEN calculate_lombardi(weight, reps)
    ELSE IF method = "O'Conner" THEN calculate_oconner(weight, reps)
    ELSE LET v1 == calculate_epley(weight, reps)
             v2 == calculate_brzycki(weight, reps)
             v3 == calculate_lombardi(weight, reps)
             v4 == calculate_oconner(weight, reps)
         IN FDiv(FAdd(FAdd(FAdd(v1, v2), v3), v4), FromInt(4))

get_1rm(weight, reps, method) ==
    IF method = "Epley" THEN calculate_epley(weight, reps)
    ELSE IF method = "Brzycki" THEN calculate_brzycki(weight, reps)
    ELSE IF method = "Lombardi" THEN calculate_lombardi(weight, reps)
    ELSE IF method = "O'Conner" THEN calculate_oconner(weight, reps)
    ELSE IF method = "Gennemsnit"
    THEN LET v1 == calculate_epley(weight, reps)
             v2 == calculate_brzycki(weight, reps)
             v3 == calculate_lombardi(weight, reps)
             v4 == calculate_oconner(weight, reps)
         IN FDiv(FAdd(FAdd(FAdd(v1, v2), v3), v4), FromInt(4))
    ELSE Zero

(* ------------------------------------------------------------------ *)
(* The script: inputs, estimate, growth rates, projection loop          *)
(* ------------------------------------------------------------------ *)
VARIABLES weight, reps, formula_choice, experience, nutrition, weeks,
          current_1rm, weekly_rate_avg, weekly_rate_high, weekly_rate_low,
          projection_data, val_avg, val_high, val_low, w, it, pc

vars == <<weight, reps, formula_choice, experience, nutrition, weeks,
          current_1rm, weekly_rate_avg, weekly_rate_high, weekly_rate_low,
          projection_data, val_avg, val_high, val_low, w, it, pc>>

inputs == <<weight, reps, formula_choice, experience, nutrition, weeks>>

\* what the widgets can return: weight >= 1.0 with no upper limit, reps in
\* 1..30, one of the five formulas, weeks from 1 up
WidgetWeights == {W_2_5, W_100, W_1e308}
WidgetReps == {1, 5, 30}
WidgetWeeks == 1..MaxWeeks

\* the slider's initial value
DefaultWeeks == 8

\* get_1rm is a function of its arguments and checks none of them
Weights == {W_neg5, Zero, W_tiny, W_min_normal, W_2_5, W_100, W_1e308}
RepsRange == (0 - MaxNegReps)..MaxReps
Methods == Formulas \cup {"Wathan"}

\* values handed to the calculations when they are used without the widgets
CoreWeights == {W_neg5, W_100}
CoreReps == {5}
CoreWeeks == (0 - MaxNegWeeks)..MaxWeeks

Experiences == {"Begynder", "Let oevet", "Avanceret", "Elite"}
Nutritions == {"Kalorieoverskud", "Vedligeholdelse", "Kalorieunderskud"}

\* the decimal literals of growth_rates, as numerator and denominator
growth_rate_literals ==
    [e \in Experiences |->
        CASE e = "Begynder" -> <<125, 10000>>
          [] e = "Let oevet" -> <<6, 1000>>
          [] e = "Avanceret" -> <<25, 10000>>
          [] e = "Elite" -> <<1, 1000>>]

\* the decimal literals of nutrition_multipliers
nutrition_multiplier_literals ==
    [n \in Nutritions |->
        CASE n = "Kalorieoverskud" -> <<12, 10>>
          [] n = "Vedligeholdelse" -> <<9, 10>>
          [] n = "Kalorieunderskud" -> <<5, 10>>]

growth_rates ==
    [e \in Experiences |-> Lit(growth_rate_literals[e][1], growth_rate_literals[e][2])]

nutrition_multipliers ==
    [n \in Nutritions |->
        Lit(nutrition_multiplier_literals[n][1], nutrition_multiplier_literals[n][2])]

\* weekly_rate_avg, weekly_rate_high, weekly_rate_low
RateAvg(base_rate, modifier) == FMul(base_rate, modifier)

\* faulty variant: the optimistic rate takes the factor 0.5
RateHighSwapped(base_rate, modifier) == FMul(FMul(base_rate, modifier), Lit(5, 10))

RateHigh(base_rate, modifier) == FMul(FMul(base_rate, modifier), Lit(15, 10))

RateLow(base_rate, modifier) == FMul(FMul(base_rate, modifier), Lit(5, 10))

\* faulty variant: the rate is added, not compounded
GrowAdditive(val, rate) == FAdd(val, rate)

\* val * (1 + weekly_rate)
Grow(val, rate) == FMul(val, FAdd(FromInt(1), rate))

\* faulty variant: range(weeks)
RangeStopExclusive(wk) == wk

\* the stop of range(weeks + 1)
RangeStop(wk) == wk + 1

\* the name w before the for statement binds it
Unbound == 0 - 1

Unassigned ==
    /\ current_1rm = None
    /\ weekly_rate_avg = None /\ weekly_rate_high = None /\ weekly_rate_low = None
    /\ projection_data = <<>>
    /\ val_avg = None /\ val_high = None /\ val_low = None
    /\ w = Unbound
    /\ it = 0
    /\ pc = "calc"

\* the script run on what its widgets return
Init ==
    /\ weight \in WidgetWeights
    /\ reps \in WidgetReps
    /\ formula_choice \in Formulas
    /\ experience \in Experiences
    /\ nutrition \in Nutritions
    /\ weeks \in WidgetWeeks
    /\ Unassigned

\* current_1rm = get_1rm(weight, reps, formula_choice)
Calculate1RM ==
    /\ pc = "calc"
    /\ current_1rm' = get_1rm(weight, reps, formula_choice)
    /\ pc' = "rates"
    /\ UNCHANGED <<inputs, weekly_rate_avg, weekly_rate_high, weekly_rate_low,
                   projection_data, val_avg, val_high, val_low, w, it>>

\* base_rate = growth_rates[experience]; modifier = nutrition_multipliers[nutrition];
\* the three weekly rates
DetermineGrowthRate ==
    /\ pc = "rates"
    /\ \E base_rate \in {growth_rates[experience]},
          modifier \in {nutrition_multipliers[nutrition]} :
          /\ weekly_rate_avg' = RateAvg(base_rate, modifier)
          /\ weekly_rate_high' = RateHigh(base_rate, modifier)
          /\ weekly_rate_low' = RateLow(base_rate, modifier)
    /\ pc' = "init"
    /\ UNCHANGED <<inputs, current_1rm, projection_data, val_avg, val_high, val_low,
                   w, it>>

InitProjection ==
    /\ pc = "init"
    /\ projection_data' = <<>>
    /\ val_avg' = current_1rm
    /\ val_high' = current_1rm
    /\ val_low' = current_1rm
    /\ pc' = "loop"
    /\ UNCHANGED <<inputs, current_1rm, weekly_rate_avg, weekly_rate_high,
                   weekly_rate_low, w, it>>

\* faulty variant: the totals grow before the row is appended
LoopBodyGrowFirst ==
    /\ pc = "loop"
    /\ it < RangeStop(weeks)
    /\ w' = it
    /\ it' = it + 1
    /\ val_avg' = Grow(val_avg, weekly_rate_avg)
    /\ val_high' = Grow(val_high, weekly_rate_high)
    /\ val_low' = Grow(val_low, weekly_rate_low)
    /\ projection_data' = Append(projection_data,
            [Uge |-> w', Metode |-> formula_choice, Estimeret1RM |-> val_avg',
             Optimistisk |-> val_high', Konservativ |-> val_low'])
    /\ UNCHANGED <<inputs, current_1rm, weekly_rate_avg, weekly_rate_high,
                   weekly_rate_low, pc>>

\* one iteration of: for w in range(weeks + 1).  it counts the values the
\* range has yielded; w is the last of them.
LoopBody ==
    /\ pc = "loop"
    /\ it < RangeStop(weeks)
    /\ w' = it
    /\ it' = it + 1
    /\ projection_data' = Append(projection_data,
            [Uge |-> w', Metode |-> formula_choice, Estimeret1RM |-> val_avg,
             Optimistisk |-> val_high, Konservativ |-> val_low])
    /\ val_avg' = Grow(val_avg, weekly_rate_avg)
    /\ val_high' = Grow(val_high, weekly_rate_high)
    /\ val_low' = Grow(val_low, weekly_rate_low)
    /\ UNCHANGED <<inputs, current_1rm, weekly_rate_avg, weekly_rate_high,
                   weekly_rate_low, pc>>

\* the range is exhausted
LoopExit ==
    /\ pc = "loop"
    /\ ~(it < RangeStop(weeks))
    /\ pc' = "frame"
    /\ UNCHANGED <<inputs, current_1rm, weekly_rate_avg, weekly_rate_high,
                   weekly_rate_low, projection_data, val_avg, val_high, val_low, w, it>>

\* df = pd.DataFrame(projection_data); df = df[[...]]: selecting the columns
\* of a frame built from no rows raises KeyError
BuildFrame ==
    /\ pc = "frame"
    /\ pc' = IF projection_data = <<>> THEN "KeyError" ELSE "done"
    /\ UNCHANGED <<inputs, current_1rm, weekly_rate_avg, weekly_rate_high,
                   weekly_rate_low, projection_data, val_avg, val_high, val_low, w, it>>

Next ==
    \/ Calculate1RM
    \/ DetermineGrowthRate
    \/ InitProjection
    \/ LoopBody
    \/ LoopExit
    \/ BuildFrame

Spec == Init /\ [][Next]_vars

\* the calculations of lines 73-119 on values given to them directly, the
\* widgets of lines 48-68 left out: the estimator and the projection taken
\* as the functions estimate(weight, reps, formula) and
\* project(start, rate, multiplier, weeks)
CoreInit ==
    /\ weight \in CoreWeights
    /\ reps \in CoreReps
    /\ formula_choice \in Methods
    /\ experience \in Experiences
    /\ nutrition \in Nutritions
    /\ weeks \in CoreWeeks
    /\ Unassigned

CoreSpec == CoreInit /\ [][Next]_vars

\* get_1rm alone, over every weight, rep count and selector
EstInit ==
    /\ weight \in Weights
    /\ reps \in RepsRange
    /\ formula_choice \in Methods
    /\ experience = "Begynder"
    /\ nutrition = "Kalorieoverskud"
    /\ weeks = DefaultWeeks
    /\ Unassigned

EstNext == Calculate1RM

EstSpec == EstInit /\ [][EstNext]_vars


(* ------------------------------------------------------------------ *)
(* Properties                                                           *)
(* ------------------------------------------------------------------ *)
Estimated == pc # "calc"
Rows == 1..Len(projection_data)

\* C1: with reps = 1 every formula, and their average, returns exactly the
\* weight, for every weight > 0.
C1_RepsOneReturnsWeight ==
    (Estimated /\ reps = 1 /\ IsPos(weight) /\ formula_choice \in Formulas)
        => FEq(current_1rm, weight)

\* C2: for weight > 0 and any reps >= 1 (36, 37 and beyond included) each
\* formula and the average return a strictly positive number: Brzycki
\* neither divides by zero nor turns negative.
C2_StrictlyPositive ==
    (Estimated /\ IsPos(weight) /\ reps >= 1 /\ formula_choice \in Formulas)
        => IsPos(current_1rm)

C2_Witness ==
    /\ Estimated /\ reps = 37 /\ formula_choice = "Brzycki"
    /\ weight = W_100 /\ current_1rm = W_100

\* a double of full precision: not subnormal
IsNormal(x) == IsFinite(x) /\ BitLen(x.m) = MantBits

Increasing == {"Epley", "O'Conner", "Lombardi"}

\* C3 as stated: for every weight > 0, Epley, O'Conner and Lombardi are
\* strictly increasing in reps over 1..30: the estimate at reps + 1 exceeds
\* the one at reps for every reps in 1..29.
C3_AsStated ==
    (Estimated /\ IsPos(weight) /\ reps \in 1..29 /\ formula_choice \in Increasing)
        => FLt(current_1rm, get_1rm(weight, reps + 1, formula_choice))

\* C3: for every weight > 0 that is not subnormal, Epley, O'Conner and
\* Lombardi are strictly increasing in reps over 1..30 as long as the
\* estimates are finite: for reps in 1..29 the estimate at reps + 1, when it
\* has not overflowed to inf, exceeds the one at reps (the step from the
\* reps = 1 short-circuit included).
C3_StrictlyIncreasing ==
    (/\ Estimated /\ IsPos(weight) /\ IsNormal(weight) /\ reps \in 1..29
     /\ formula_choice \in Increasing
     /\ IsFinite(get_1rm(weight, reps + 1, formula_choice)))
        => FLt(current_1rm, get_1rm(weight, reps + 1, formula_choice))

C3_Witness ==
    /\ Estimated /\ reps = 1 /\ formula_choice = "Lombardi" /\ weight = W_100
    /\ current_1rm = W_100
    /\ FLt(current_1rm, get_1rm(weight, 2, "Lombardi"))

WeeksInOrder == \A i \in Rows : projection_data[i].Uge = i - 1

\* the values range(weeks + 1) still has to yield
Remaining == RangeStop(weeks) - it

\* C4: for weeks >= 0 the loop terminates with exactly weeks + 1 rows whose
\* week fields are 0, 1, ..., weeks in order.  The rows emitted so far are
\* always weeks 0, 1, 2, ... with none repeated or skipped; the number of
\* iterations left is never negative and every pass through the loop
\* lowers it, so the loop ends; and once it has ended there are weeks + 1
\* rows, w is weeks, and the script does not fail on them.
C4_RowPerWeek ==
    /\ []((weeks >= 0) =>
            /\ WeeksInOrder
            /\ (pc = "loop") =>
                  /\ Len(projection_data) = it
                  /\ Remaining >= 0
                  /\ w = (IF it = 0 THEN Unbound ELSE it - 1)
            /\ (pc \in {"frame", "done"}) =>
                  (Len(projection_data) = weeks + 1 /\ w = weeks)
            /\ pc # "KeyError")
    /\ [][(weeks >= 0 /\ pc = "loop") =>
            (pc' = "frame" \/ (pc' = "loop" /\ Remaining' < Remaining))]_vars

C4_Witness ==
    /\ pc = "done" /\ weeks = MaxWeeks /\ w = MaxWeeks
    /\ Len(projection_data) = MaxWeeks + 1
    /\ projection_data[MaxWeeks + 1].Uge = MaxWeeks

\* C5: row 0 of the projection holds the start value in all three columns:
\* it is emitted before any growth is applied.
C5_RowZeroIsStart ==
    (Len(projection_data) >= 1) =>
        /\ projection_data[1].Estimeret1RM = current_1rm
        /\ projection_data[1].Optimistisk = current_1rm
        /\ projection_data[1].Konservativ = current_1rm

C5_Witness ==
    /\ pc = "done" /\ Len(projection_data) >= 2
    /\ projection_data[1].Estimeret1RM = current_1rm
    /\ FLt(current_1rm, projection_data[2].Estimeret1RM)

RowOrdered(r) ==
    /\ FLe(r.Konservativ, r.Estimeret1RM)
    /\ FLe(r.Estimeret1RM, r.Optimistisk)

RatesOrdered ==
    /\ FLe(Zero, weekly_rate_low)
    /\ FLe(weekly_rate_low, weekly_rate_avg)
    /\ FLe(weekly_rate_avg, weekly_rate_high)

\* C6: the derived rates satisfy rate_high >= rate_avg >= rate_low >= 0, and
\* every emitted row has optimistic >= average >= conservative, for every
\* start the projection is given: the start is current_1rm, which is
\* positive (or inf) for everything the widgets return.
C6_ProjectionOrdered ==
    /\ (pc \in {"init", "loop", "frame", "done", "KeyError"}) => RatesOrdered
    /\ \A i \in Rows : RowOrdered(projection_data[i])

C6_Witness ==
    /\ IsPos(current_1rm) /\ Len(projection_data) >= 2
    /\ FLt(projection_data[2].Konservativ, projection_data[2].Estimeret1RM)
    /\ FLt(projection_data[2].Estimeret1RM, projection_data[2].Optimistisk)

\* experienceRate * nutritionMultiplier of the decimal literals, as the
\* fraction RateNum / RateDen
RateNum ==
    growth_rate_literals[experience][1] * nutrition_multiplier_literals[nutrition][1]

RateDen ==
    growth_rate_literals[experience][2] * nutrition_multiplier_literals[nutrition][2]

RECURSIVE NatPow(_, _)
NatPow(a, k) == IF k = 0 THEN <<1>> ELSE NatMul(a, NatPow(a, k - 1))

\* |v| * RateDen^k and |start| * (RateDen + RateNum)^k, both in units of
\* the smaller of the two powers of two: they are equal exactly when
\* |v| = |start| * (1 + RateNum / RateDen)^k
RowScaled(v, start, k) ==
    MulPow2(NatMul(v.m, NatPow(NatOf(RateDen), k)), v.e - Min(v.e, start.e))

CompoundScaled(v, start, k) ==
    MulPow2(NatMul(start.m, NatPow(NatOf(RateDen + RateNum), k)),
            start.e - Min(v.e, start.e))

NatDist(a, b) == IF NatCmp(a, b) >= 0 THEN NatSub(a, b) ELSE NatSub(b, a)

\* v = start * (1 + rate_avg)^k as real numbers
ExactlyCompound(v, start, k) ==
    IF IsFinite(v) /\ IsFinite(start)
    THEN v.s = start.s /\ RowScaled(v, start, k) = CompoundScaled(v, start, k)
    ELSE v = start

\* |v - start * (1 + rate_avg)^k| <= 10^-12 * start * (1 + rate_avg)^k
NearlyCompound(v, start, k) ==
    /\ IsFinite(start) /\ v.s = start.s
    /\ NatCmp(NatMul(NatDist(RowScaled(v, start, k), CompoundScaled(v, start, k)),
                     NatPow(<<10>>, 12)),
              CompoundScaled(v, start, k)) <= 0

\* C7 as stated: the average column of row k equals
\* start * (1 + rate_avg)^k with rate_avg = experienceRate *
\* nutritionMultiplier; project(100, 0.0125, 1.2, 2) gives the averages
\* 100, 101.5, 103.0225.
C7_AsStated ==
    \A i \in Rows : ExactlyCompound(projection_data[i].Estimeret1RM, current_1rm, i - 1)

\* C7: the average column of row k, while it is finite, equals
\* start * (1 + rate_avg)^k to within a relative error of 10^-12, each step
\* of the loop rounding its product to a double; project(100, 0.0125, 1.2, 2)
\* gives the averages 100, 101.49999999999999, 103.02249999999998.
C7_CompoundGrowth ==
    /\ \A i \in Rows :
          IsFinite(projection_data[i].Estimeret1RM) =>
              NearlyCompound(projection_data[i].Estimeret1RM, current_1rm, i - 1)
    /\ (/\ current_1rm = W_100 /\ experience = "Begynder"
        /\ nutrition = "Kalorieoverskud" /\ Len(projection_data) >= 3)
          => /\ projection_data[1].Estimeret1RM = W_100
             /\ projection_data[2].Estimeret1RM
                    = Fin(1, <<2895, 3403, 4275, 7142>>, -46)
             /\ projection_data[3].Estimeret1RM
                    = Fin(1, <<3388, 4704, 5639, 7249>>, -46)

C7_Witness ==
    /\ current_1rm = W_100 /\ experience = "Begynder"
    /\ nutrition = "Kalorieoverskud" /\ Len(projection_data) >= 3
    /\ ~ExactlyCompound(projection_data[3].Estimeret1RM, current_1rm, 2)
    /\ NearlyCompound(projection_data[3].Estimeret1RM, current_1rm, 2)

\* C8 as stated: with an unrecognised selector no estimate is returned and
\* no projection is computed from it.
C8_AsStated ==
    (formula_choice \notin Formulas) =>
        (current_1rm = None /\ projection_data = <<>>)

\* C8: with an unrecognised selector get_1rm returns 0 and raises nothing;
\* a projection computed from it has weeks + 1 rows, each 0 in all three
\* columns.
C8_UnknownFormulaYieldsZero ==
    (formula_choice \notin Formulas) =>
        /\ Estimated => current_1rm = Zero
        /\ \A i \in Rows :
              /\ projection_data[i].Estimeret1RM = Zero
              /\ projection_data[i].Optimistisk = Zero
              /\ projection_data[i].Konservativ = Zero
        /\ (pc = "done") => Len(projection_data) = weeks + 1

C8_Witness ==
    /\ formula_choice \notin Formulas /\ pc = "done" /\ weight = W_100
    /\ Len(projection_data) >= 2
    /\ projection_data[2].Optimistisk = Zero

\* C10 as stated: with weight <= 0 or reps < 1 the estimator is rejected
\* and returns no estimate.
C10_AsStated ==
    (weight.s <= 0 \/ reps < 1) => current_1rm = None

\* C10: the estimator validates nothing and returns a value.  For
\* weight <= 0 and reps >= 1 it is the formula's value, with the sign of the
\* weight (estimate(-5, 5, "Epley") = -5.833333333333334); for reps = 0
\* Lombardi gives 0; for reps < 0 Lombardi and the average give a complex
\* number.
C10_InvalidInputStillEvaluated ==
    (Estimated /\ formula_choice \in Formulas /\ (weight.s <= 0 \/ reps < 1)) =>
        /\ current_1rm # None
        /\ (reps >= 1) => (IsNum(current_1rm) /\ current_1rm.s = weight.s)
        /\ (weight = W_neg5 /\ reps = 5 /\ formula_choice = "Epley")
              => current_1rm = Fin(-1, <<1974, 5658, 7494, 6567>>, -50)
        /\ (reps = 0 /\ formula_choice = "Lombardi") => current_1rm = Zero
        /\ (reps < 0 /\ formula_choice \in {"Lombardi", "Gennemsnit"})
              => current_1rm.k = "cx"

C10_Witness ==
    /\ Estimated /\ weight = W_neg5 /\ reps = 5 /\ formula_choice = "Epley"
    /\ current_1rm = Fin(-1, <<1974, 5658, 7494, 6567>>, -50)
====
